---- MODULE Spec2Model ----
(***************************************************************************)
(* Model of src/lib.rs: the legacy-transaction codec (OutPoint, TxInput,   *)
(* TxOutput, LegacyTransaction), its builder, and the decode of untrusted  *)
(* byte buffers.                                                           *)
(*                                                                         *)
(* Numbers.  TLC's integers are 32-bit signed, so u32, u64 and usize       *)
(* values are kept as little-endian tuples of 16-bit limbs (2 limbs for    *)
(* u32, 4 limbs for u64 and for a 64-bit usize); i32 fits and is an Int.   *)
(* A byte buffer (&[u8], Vec<u8>) is a sequence of 0..255; the Rust index  *)
(* i is the TLA+ index i + 1.                                              *)
(*                                                                         *)
(* Target.  usize is 64 bits wide, so script_start + script_len (a u32     *)
(* plus a literal) never wraps.  A call ends in one of four ways: Ok, Err, *)
(* Panic (an index or slice out of range) or Abort (Vec::with_capacity     *)
(* refused by the allocator).                                              *)
(***************************************************************************)
EXTENDS Integers, Sequences, FiniteSets, TLC

\* ---------------------------------------------------------------- numbers

\* radix of one byte (u8) and of one 16-bit limb
ByteBase == 256
LimbBase == ByteBase * ByteBase

\* limbs of a u32, and of a usize / u64 on a 64-bit target
U32Limbs == 2
U64Limbs == 4

\* a small non-negative Int (a buffer length, a literal) as a usize
usize_of(n) == << n % LimbBase, n \div LimbBase, 0, 0 >>

\* `x as usize` for x: u32 (zero extension, lib.rs:132)
as_usize(x) == x \o [i \in 1..(U64Limbs - U32Limbs) |-> 0]

\* `n as u32` for n: usize (keeps the low 32 bits, lib.rs:115)
as_u32(n) == SubSeq(n, 1, U32Limbs)

\* carry out of limb i when adding a and b
RECURSIVE add_carry(_, _, _)
add_carry(a, b, i) ==
    IF i = 0 THEN 0
    ELSE (a[i] + b[i] + add_carry(a, b, i - 1)) \div LimbBase

\* a + b on usize; the sum wraps at 2^64 (never reached: the operands are
\* a u32 and a literal)
usize_add(a, b) ==
    [i \in 1..U64Limbs |-> (a[i] + b[i] + add_carry(a, b, i - 1)) % LimbBase]

\* a < b on usize, most significant limb first
RECURSIVE lt_from(_, _, _)
lt_from(a, b, i) ==
    IF i = 0 THEN FALSE
    ELSE IF a[i] # b[i] THEN a[i] < b[i]
    ELSE lt_from(a, b, i - 1)

usize_lt(a, b) == lt_from(a, b, U64Limbs)

usize_le(a, b) == ~usize_lt(b, a)

\* a usize known to be at most a buffer length, as an Int
usize_int(a) == a[1] + LimbBase * a[2]

\* u32::to_le_bytes / u32::from_le_bytes
u32_to_le_bytes(x) ==
    << x[1] % ByteBase, x[1] \div ByteBase, x[2] % ByteBase, x[2] \div ByteBase >>

\* the bytes read most significant first
u32_from_be_bytes(b) ==
    << b[4] + ByteBase * b[3], b[2] + ByteBase * b[1] >>

u32_from_le_bytes(b) ==
    << b[1] + ByteBase * b[2], b[3] + ByteBase * b[4] >>

\* u64::to_le_bytes / u64::from_le_bytes
\* the value narrowed to 32 bits before it is written
u64_to_le_bytes_low32(x) ==
    << x[1] % ByteBase, x[1] \div ByteBase, x[2] % ByteBase, x[2] \div ByteBase,
       0, 0, 0, 0 >>

u64_to_le_bytes(x) ==
    << x[1] % ByteBase, x[1] \div ByteBase, x[2] % ByteBase, x[2] \div ByteBase,
       x[3] % ByteBase, x[3] \div ByteBase, x[4] % ByteBase, x[4] \div ByteBase >>

u64_from_le_bytes(b) ==
    << b[1] + ByteBase * b[2], b[3] + ByteBase * b[4],
       b[5] + ByteBase * b[6], b[7] + ByteBase * b[8] >>

\* i32::to_le_bytes (two's complement: byte k is floor(v / 256^k) mod 256)
i32_to_le_bytes(v) ==
    << v % ByteBase,
       (v \div ByteBase) % ByteBase,
       (v \div (ByteBase * ByteBase)) % ByteBase,
       (v \div (ByteBase * ByteBase * ByteBase)) % ByteBase >>

\* i32::from_le_bytes (the top byte carries the sign)
i32_from_le_bytes(b) ==
    b[1] + ByteBase * b[2] + ByteBase * ByteBase * b[3]
      + ByteBase * ByteBase * ByteBase * (IF b[4] < 128 THEN b[4] ELSE b[4] - ByteBase)

\* ---------------------------------------------------------------- results

\* Result<(T, usize), BitcoinError>, plus the two ways a call can fail to
\* return: a panic (out-of-range index or slice) and an abort (the
\* allocator refuses a request).
Ok(v, n) == [kind |-> "Ok", val |-> v, used |-> n, err |-> "none"]
Err(e) == [kind |-> "Err", val |-> << >>, used |-> 0, err |-> e]
Panic == [kind |-> "Panic", val |-> << >>, used |-> 0, err |-> "none"]
Abort == [kind |-> "Abort", val |-> << >>, used |-> 0, err |-> "none"]

BitcoinError == {"InvalidTransaction", "InvalidScript", "InvalidAmount", "ParseError"}

\* data[a..b] is in range (a <= b <= data.len()), a and b usize
slice_ok(data, a, b) == usize_le(a, b) /\ usize_le(b, usize_of(Len(data)))

\* data[i] is in range, i usize
index_ok(data, i) == usize_lt(i, usize_of(Len(data)))

\* data[a..b] once in range
slice(data, a, b) == SubSeq(data, usize_int(a) + 1, usize_int(b))

\* ---------------------------------------------------------------- OutPoint

\* [u8; 32]
TxidLen == 32

OutPoint_serialize(o) == o.txid \o u32_to_le_bytes(o.vout)

\* the index left out of the count of bytes consumed
OutPoint_parse_used32(data) ==
    IF Len(data) < 32 + 4 THEN Err("InvalidTransaction")
    ELSE IF ~slice_ok(data, usize_of(0), usize_of(32)) THEN Panic
    ELSE IF ~index_ok(data, usize_of(35)) THEN Panic
    ELSE Ok([txid |-> slice(data, usize_of(0), usize_of(32)),
             vout |-> u32_from_le_bytes(slice(data, usize_of(32), usize_of(36)))],
            32)

OutPoint_parse(data) ==
    IF Len(data) < 32 + 4 THEN Err("InvalidTransaction")
    ELSE IF ~slice_ok(data, usize_of(0), usize_of(32)) THEN Panic
    ELSE IF ~index_ok(data, usize_of(35)) THEN Panic
    ELSE Ok([txid |-> slice(data, usize_of(0), usize_of(32)),
             vout |-> u32_from_le_bytes(slice(data, usize_of(32), usize_of(36)))],
            36)

\* ---------------------------------------------------------------- TxInput

TxInput_serialize(i) ==
    OutPoint_serialize(i.previous_output)
      \o u32_to_le_bytes(as_u32(usize_of(Len(i.script_sig))))
      \o i.script_sig
      \o u32_to_le_bytes(i.sequence)

\* the second length check without the 4 bytes of the sequence field
TxInput_parse_no_sequence(data) ==
    IF Len(data) < 36 + 4 THEN Err("InvalidTransaction")
    ELSE
      LET op == OutPoint_parse(data) IN
      IF op.kind # "Ok" THEN op
      ELSE
        LET script_len_start == usize_of(op.used)
            script_start == usize_add(script_len_start, usize_of(4))
        IN
        IF ~index_ok(data, usize_add(script_len_start, usize_of(3))) THEN Panic
        ELSE
          LET script_len == as_usize(u32_from_le_bytes(
                                slice(data, script_len_start, script_start)))
              script_end == usize_add(script_start, script_len)
          IN
          IF usize_lt(usize_of(Len(data)), script_end)
            THEN Err("InvalidTransaction")
          ELSE IF ~slice_ok(data, script_start, script_end) THEN Panic
          ELSE IF ~index_ok(data, usize_add(script_end, usize_of(3))) THEN Panic
          ELSE Ok([previous_output |-> op.val,
                   script_sig |-> slice(data, script_start, script_end),
                   sequence |-> u32_from_le_bytes(
                       slice(data, script_end, usize_add(script_end, usize_of(4))))],
                  usize_int(usize_add(script_end, usize_of(4))))

TxInput_parse(data) ==
    IF Len(data) < 36 + 4 THEN Err("InvalidTransaction")
    ELSE
      LET op == OutPoint_parse(data) IN
      IF op.kind # "Ok" THEN op
      ELSE
        LET script_len_start == usize_of(op.used)
            script_start == usize_add(script_len_start, usize_of(4))
        IN
        IF ~index_ok(data, usize_add(script_len_start, usize_of(3))) THEN Panic
        ELSE
          LET script_len == as_usize(u32_from_le_bytes(
                                slice(data, script_len_start, script_start)))
              script_end == usize_add(script_start, script_len)
          IN
          IF usize_lt(usize_of(Len(data)), usize_add(script_end, usize_of(4)))
            THEN Err("InvalidTransaction")
          ELSE IF ~slice_ok(data, script_start, script_end) THEN Panic
          ELSE IF ~index_ok(data, usize_add(script_end, usize_of(3))) THEN Panic
          ELSE Ok([previous_output |-> op.val,
                   script_sig |-> slice(data, script_start, script_end),
                   sequence |-> u32_from_le_bytes(
                       slice(data, script_end, usize_add(script_end, usize_of(4))))],
                  usize_int(usize_add(script_end, usize_of(4))))

\* ---------------------------------------------------------------- TxOutput

TxOutput_serialize(o) ==
    u64_to_le_bytes(o.value)
      \o u32_to_le_bytes(as_u32(usize_of(Len(o.script_pubkey))))
      \o o.script_pubkey

\* the script sliced without the check of data.len() against script_end
TxOutput_parse_unchecked(data) ==
    IF Len(data) < 8 + 4 THEN Err("InvalidTransaction")
    ELSE IF ~index_ok(data, usize_of(11)) THEN Panic
    ELSE
      LET script_len == as_usize(u32_from_le_bytes(
                            slice(data, usize_of(8), usize_of(12))))
          script_start == usize_of(12)
          script_end == usize_add(script_start, script_len)
      IN
      IF ~slice_ok(data, script_start, script_end) THEN Panic
      ELSE Ok([value |-> u64_from_le_bytes(slice(data, usize_of(0), usize_of(8))),
               script_pubkey |-> slice(data, script_start, script_end)],
              usize_int(script_end))

TxOutput_parse(data) ==
    IF Len(data) < 8 + 4 THEN Err("InvalidTransaction")
    ELSE IF ~index_ok(data, usize_of(11)) THEN Panic
    ELSE
      LET script_len == as_usize(u32_from_le_bytes(
                            slice(data, usize_of(8), usize_of(12))))
          script_start == usize_of(12)
          script_end == usize_add(script_start, script_len)
      IN
      IF usize_lt(usize_of(Len(data)), script_end) THEN Err("InvalidTransaction")
      ELSE IF ~slice_ok(data, script_start, script_end) THEN Panic
      ELSE Ok([value |-> u64_from_le_bytes(slice(data, usize_of(0), usize_of(8))),
               script_pubkey |-> slice(data, script_start, script_end)],
              usize_int(script_end))

\* ------------------------------------------------------- LegacyTransaction

\* elements the allocator always provides (2^30 - 1: 64 GiB of TxInput); a
\* larger Vec::with_capacity request is granted or refused by the environment
MemElems == 1073741823

\* Vec::with_capacity(n) returns (lib.rs:261, lib.rs:267); when it does not,
\* the process aborts.  n is a u32 count, so n elements never exceed
\* isize::MAX bytes and the capacity-overflow panic cannot occur.
with_capacity(n, grant) == usize_le(n, usize_of(MemElems)) \/ grant

\* for _ in 0..inputs_count { TxInput::parse(&data[offset..])? ... }
\* i counts the iterations done, acc is `inputs`
RECURSIVE parse_inputs(_, _, _, _, _)
parse_inputs(data, offset, i, inputs_count, acc) ==
    IF ~usize_lt(usize_of(i), inputs_count) THEN Ok(acc, offset)
    ELSE IF offset > Len(data) THEN Panic
    ELSE
      LET r == TxInput_parse(SubSeq(data, offset + 1, Len(data))) IN
      IF r.kind # "Ok" THEN r
      ELSE parse_inputs(data, offset + r.used, i + 1, inputs_count,
                        Append(acc, r.val))

\* for _ in 0..outputs_count { TxOutput::parse(&data[offset..])? ... }
RECURSIVE parse_outputs(_, _, _, _, _)
parse_outputs(data, offset, i, outputs_count, acc) ==
    IF ~usize_lt(usize_of(i), outputs_count) THEN Ok(acc, offset)
    ELSE IF offset > Len(data) THEN Panic
    ELSE
      LET r == TxOutput_parse(SubSeq(data, offset + 1, Len(data))) IN
      IF r.kind # "Ok" THEN r
      ELSE parse_outputs(data, offset + r.used, i + 1, outputs_count,
                         Append(acc, r.val))

\* a decode that rejects bytes left after the last output
try_from_strict(data, grant) ==
    IF Len(data) < 16 THEN Err("InvalidTransaction")
    ELSE IF ~index_ok(data, usize_of(15)) THEN Panic
    ELSE
      LET version == i32_from_le_bytes(slice(data, usize_of(0), usize_of(4)))
          inputs_count == as_usize(u32_from_le_bytes(
                              slice(data, usize_of(4), usize_of(8))))
          outputs_count == as_usize(u32_from_le_bytes(
                               slice(data, usize_of(8), usize_of(12))))
          lock_time == u32_from_le_bytes(slice(data, usize_of(12), usize_of(16)))
      IN
      IF ~with_capacity(inputs_count, grant) THEN Abort
      ELSE
        LET ins == parse_inputs(data, 16, 0, inputs_count, << >>) IN
        IF ins.kind # "Ok" THEN ins
        ELSE IF ~with_capacity(outputs_count, grant) THEN Abort
        ELSE
          LET outs == parse_outputs(data, ins.used, 0, outputs_count, << >>) IN
          IF outs.kind # "Ok" THEN outs
          ELSE IF outs.used # Len(data) THEN Err("InvalidTransaction")
          ELSE Ok([version |-> version,
                   inputs |-> ins.val,
                   outputs |-> outs.val,
                   lock_time |-> lock_time],
                  outs.used)

\* LegacyTransaction::try_from(data).  `grant` is the allocator's answer to
\* an oversized request.  The `used` field of an Ok result is the final
\* value of the local `offset`.
try_from(data, grant) ==
    IF Len(data) < 16 THEN Err("InvalidTransaction")
    ELSE IF ~index_ok(data, usize_of(15)) THEN Panic
    ELSE
      LET version == i32_from_le_bytes(slice(data, usize_of(0), usize_of(4)))
          inputs_count == as_usize(u32_from_le_bytes(
                              slice(data, usize_of(4), usize_of(8))))
          outputs_count == as_usize(u32_from_le_bytes(
                               slice(data, usize_of(8), usize_of(12))))
          lock_time == u32_from_le_bytes(slice(data, usize_of(12), usize_of(16)))
      IN
      IF ~with_capacity(inputs_count, grant) THEN Abort
      ELSE
        LET ins == parse_inputs(data, 16, 0, inputs_count, << >>) IN
        IF ins.kind # "Ok" THEN ins
        ELSE IF ~with_capacity(outputs_count, grant) THEN Abort
        ELSE
          LET outs == parse_outputs(data, ins.used, 0, outputs_count, << >>) IN
          IF outs.kind # "Ok" THEN outs
          ELSE Ok([version |-> version,
                   inputs |-> ins.val,
                   outputs |-> outs.val,
                   lock_time |-> lock_time],
                  outs.used)

\* for input in &self.inputs { v.extend(input.serialize()) }
RECURSIVE extend_inputs(_)
extend_inputs(inputs) ==
    IF inputs = << >> THEN << >>
    ELSE TxInput_serialize(Head(inputs)) \o extend_inputs(Tail(inputs))

\* for output in &self.outputs { v.extend(output.serialize()) }
RECURSIVE extend_outputs(_)
extend_outputs(outputs) ==
    IF outputs = << >> THEN << >>
    ELSE TxOutput_serialize(Head(outputs)) \o extend_outputs(Tail(outputs))

\* the outputs written before the inputs
serialize_outputs_first(t) ==
    i32_to_le_bytes(t.version)
      \o u32_to_le_bytes(as_u32(usize_of(Len(t.inputs))))
      \o u32_to_le_bytes(as_u32(usize_of(Len(t.outputs))))
      \o u32_to_le_bytes(t.lock_time)
      \o extend_outputs(t.outputs)
      \o extend_inputs(t.inputs)

\* <LegacyTransaction as BitcoinSerialize>::serialize
serialize(t) ==
    i32_to_le_bytes(t.version)
      \o u32_to_le_bytes(as_u32(usize_of(Len(t.inputs))))
      \o u32_to_le_bytes(as_u32(usize_of(Len(t.outputs))))
      \o u32_to_le_bytes(t.lock_time)
      \o extend_inputs(t.inputs)
      \o extend_outputs(t.outputs)

\* ------------------------------------------------ LegacyTransactionBuilder

\* LegacyTransactionBuilder::default (and new, and LegacyTransaction::builder)
default == [version |-> 1, inputs |-> << >>, outputs |-> << >>, lock_time |-> << 0, 0 >>]

version(self, v) == [self EXCEPT !.version = v]

\* the input inserted at the front
add_input_front(self, input) == [self EXCEPT !.inputs = << input >> \o self.inputs]

add_input(self, input) == [self EXCEPT !.inputs = Append(self.inputs, input)]

add_output(self, output) == [self EXCEPT !.outputs = Append(self.outputs, output)]

lock_time(self, t) == [self EXCEPT !.lock_time = t]

build(self) ==
    [version |-> self.version,
     inputs |-> self.inputs,
     outputs |-> self.outputs,
     lock_time |-> self.lock_time]

\* ------------------------------------------------------------ input sets

\* bounds of the model: the entities (inputs plus outputs) of a record, and
\* the calls made on a builder
MaxEntities == 2
MaxCalls == 3

\* all sequences over S of length at most n
SeqsUpTo(S, n) == UNION { [1..k -> S] : k \in 0..n }

OutPoints ==
    { [txid |-> [i \in 1..TxidLen |-> 0], vout |-> << 0, 0 >>],
      [txid |-> [i \in 1..TxidLen |-> i], vout |-> << 258, 1 >>],
      [txid |-> [i \in 1..TxidLen |-> 255], vout |-> << 65535, 65535 >>] }

Inputs ==
    { [previous_output |-> [txid |-> [i \in 1..TxidLen |-> 0], vout |-> << 0, 0 >>],
       script_sig |-> << >>,
       sequence |-> << 65535, 65535 >>],
      [previous_output |-> [txid |-> [i \in 1..TxidLen |-> i], vout |-> << 258, 1 >>],
       script_sig |-> << 1, 2, 3 >>,
       sequence |-> << 65534, 0 >>] }

\* 5000000000 and 1000 satoshis
Outputs ==
    { [value |-> << 61952, 10757, 1, 0 >>, script_pubkey |-> << >>],
      [value |-> << 1000, 0, 0, 0 >>, script_pubkey |-> << 118, 169 >>] }

Versions == { 1, 2, -2 }
LockTimes == { << 0, 0 >>, << 65535, 65535 >> }

\* the (version, lock_time) a builder chain sets before it adds entities
Header == << -2, << 65535, 65535 >> >>

RECURSIVE add_inputs(_, _)
add_inputs(b, ins) ==
    IF ins = << >> THEN b ELSE add_inputs(add_input(b, Head(ins)), Tail(ins))

RECURSIVE add_outputs(_, _)
add_outputs(b, outs) ==
    IF outs = << >> THEN b ELSE add_outputs(add_output(b, Head(outs)), Tail(outs))

\* the records a builder chain yields: builder().build(), and
\* builder().version(v).lock_time(t).add_input(..)...add_output(..)...build()
Records ==
    { build(default) } \cup
    { build(add_outputs(add_inputs(lock_time(version(default, Header[1]), Header[2]),
                                   io[1]), io[2])) :
        io \in { p \in SeqsUpTo(Inputs, MaxEntities) \X SeqsUpTo(Outputs, MaxEntities) :
                   Len(p[1]) + Len(p[2]) <= MaxEntities } }

\* bytes written over one byte of a buffer, and byte strings appended to one
CorruptBytes == { 0, 1, 255 }
Tails == { << 7 >>, << 255, 255, 255, 255, 0 >> }

\* what is appended after an entity of type t: after a record, raw bytes;
\* after an OutPoint, TxInput or TxOutput, raw bytes or an encoded input
TailsOf(t) ==
    IF t = "LegacyTransaction" THEN Tails
    ELSE { << 7 >> } \cup { TxInput_serialize(i) : i \in Inputs }

\* ---------------------------------------------------------------- state

VARIABLES
    pc,        \* "building", "built", "bytes", "decoded", "next", "reencoded"
    builder,   \* the LegacyTransactionBuilder
    log,       \* the builder calls made so far, in order
    ent,       \* the entity encoded: [type, val]
    buf,       \* the byte buffer handed to decode
    shape,     \* how buf came about: "encoded", "truncated", "corrupted"
    tail,      \* the bytes appended to buf after its first decode
    prev,      \* the result of the decode before the bytes were appended
    res,       \* the result of the last decode of buf
    next,      \* the result of decoding again at the offset res reports
    reenc      \* the encoding of the record res holds

vars == << pc, builder, log, ent, buf, shape, tail, prev, res, next, reenc >>

NoResult == [kind |-> "None", val |-> << >>, used |-> 0, err |-> "none"]
NoEntity == [type |-> "None", val |-> << >>]

encode(e) ==
    CASE e.type = "OutPoint" -> OutPoint_serialize(e.val)
      [] e.type = "TxInput" -> TxInput_serialize(e.val)
      [] e.type = "TxOutput" -> TxOutput_serialize(e.val)
      [] e.type = "LegacyTransaction" -> serialize(e.val)

decode(type, data, grant) ==
    CASE type = "OutPoint" -> OutPoint_parse(data)
      [] type = "TxInput" -> TxInput_parse(data)
      [] type = "TxOutput" -> TxOutput_parse(data)
      [] type = "LegacyTransaction" -> try_from(data, grant)

\* ---------------------------------------------------------------- builder

InitBuilder ==
    /\ pc = "building"
    /\ builder = default
    /\ log = << >>
    /\ ent = NoEntity
    /\ buf = << >>
    /\ shape = "none"
    /\ tail = << >>
    /\ prev = NoResult
    /\ res = NoResult
    /\ next = NoResult
    /\ reenc = << >>

Call(op, arg, b) ==
    /\ pc = "building"
    /\ Len(log) < MaxCalls
    /\ builder' = b
    /\ log' = Append(log, [op |-> op, arg |-> arg])
    /\ UNCHANGED << pc, ent, buf, shape, tail, prev, res, next, reenc >>

Version == \E v \in Versions : Call("version", v, version(builder, v))

AddInput == \E i \in Inputs : Call("add_input", i, add_input(builder, i))

AddOutput == \E o \in Outputs : Call("add_output", o, add_output(builder, o))

LockTime == \E t \in LockTimes : Call("lock_time", t, lock_time(builder, t))

Build ==
    /\ pc = "building"
    /\ ent' = [type |-> "LegacyTransaction", val |-> build(builder)]
    /\ pc' = "built"
    /\ UNCHANGED << builder, log, buf, shape, tail, prev, res, next, reenc >>

NextBuilder == Version \/ AddInput \/ AddOutput \/ LockTime \/ Build

SpecBuilder == InitBuilder /\ [][NextBuilder]_vars

\* ---------------------------------------------------------------- codec

InitRest ==
    /\ pc = "built"
    /\ builder = default
    /\ log = << >>
    /\ buf = << >>
    /\ shape = "none"
    /\ tail = << >>
    /\ prev = NoResult
    /\ res = NoResult
    /\ next = NoResult
    /\ reenc = << >>

InitTx ==
    /\ ent \in { [type |-> "LegacyTransaction", val |-> r] : r \in Records }
    /\ InitRest

InitEntity ==
    /\ ent \in { [type |-> "OutPoint", val |-> o] : o \in OutPoints }
         \cup { [type |-> "TxInput", val |-> i] : i \in Inputs }
         \cup { [type |-> "TxOutput", val |-> o] : o \in Outputs }
    /\ InitRest

\* buf = ent.serialize()
Serialize ==
    /\ pc = "built"
    /\ buf' = encode(ent)
    /\ shape' = "encoded"
    /\ pc' = "bytes"
    /\ UNCHANGED << builder, log, ent, tail, prev, res, next, reenc >>

\* buf = buf[0..k] for some k below its length
Truncate ==
    /\ pc = "bytes"
    /\ shape = "encoded"
    /\ tail = << >>
    /\ \E k \in 0..(Len(buf) - 1) : buf' = SubSeq(buf, 1, k)
    /\ shape' = "truncated"
    /\ UNCHANGED << pc, builder, log, ent, tail, prev, res, next, reenc >>

\* one byte of buf overwritten: an arbitrary, possibly hostile, buffer
Corrupt ==
    /\ pc = "bytes"
    /\ shape = "encoded"
    /\ tail = << >>
    /\ \E i \in 1..Len(buf), b \in CorruptBytes : buf' = [buf EXCEPT ![i] = b]
    /\ shape' = "corrupted"
    /\ UNCHANGED << pc, builder, log, ent, tail, prev, res, next, reenc >>

\* res = decode(buf)
Decode ==
    /\ pc = "bytes"
    /\ \E grant \in BOOLEAN : res' = decode(ent.type, buf, grant)
    /\ pc' = "decoded"
    /\ UNCHANGED << builder, log, ent, buf, shape, tail, prev, next, reenc >>

\* bytes appended to a buffer that decoded; it is decoded again
Extend ==
    /\ pc = "decoded"
    /\ res.kind = "Ok"
    /\ tail = << >>
    /\ \E t \in TailsOf(ent.type) :
         /\ buf' = buf \o t
         /\ tail' = t
    /\ prev' = res
    /\ res' = NoResult
    /\ pc' = "bytes"
    /\ UNCHANGED << builder, log, ent, shape, next, reenc >>

\* the same parse again on buf[used..], used the count the first reported
ParseNext ==
    /\ pc = "decoded"
    /\ ent.type # "LegacyTransaction"
    /\ res.kind = "Ok"
    /\ \E grant \in BOOLEAN :
         next' = decode(ent.type, SubSeq(buf, res.used + 1, Len(buf)), grant)
    /\ pc' = "next"
    /\ UNCHANGED << builder, log, ent, buf, shape, tail, prev, res, reenc >>

\* the decoded record encoded again
Reserialize ==
    /\ pc = "decoded"
    /\ ent.type = "LegacyTransaction"
    /\ res.kind = "Ok"
    /\ reenc' = serialize(res.val)
    /\ pc' = "reencoded"
    /\ UNCHANGED << builder, log, ent, buf, shape, tail, prev, res, next >>

NextTx == Serialize \/ Truncate \/ Corrupt \/ Decode \/ Extend \/ Reserialize

NextEntity == Serialize \/ Truncate \/ Corrupt \/ Decode \/ Extend \/ ParseNext

Next == Serialize \/ Truncate \/ Corrupt \/ Decode \/ Extend \/ ParseNext \/ Reserialize

SpecTx == InitTx /\ [][NextTx]_vars

SpecEntity == InitEntity /\ [][NextEntity]_vars

Spec == (InitTx \/ InitEntity) /\ [][Next]_vars

\* ---------------------------------------------------------------- claims

IsTx == ent.type = "LegacyTransaction"

\* the u32 whose value is the small number n
U32Of(n) == << n % LimbBase, n \div LimbBase >>

\* encoded sizes as the layout states them
InputSize(i) == 36 + 4 + Len(i.script_sig) + 4
OutputSize(o) == 12 + Len(o.script_pubkey)

RECURSIVE InputsSize(_)
InputsSize(s) == IF s = << >> THEN 0 ELSE InputSize(Head(s)) + InputsSize(Tail(s))

RECURSIVE OutputsSize(_)
OutputsSize(s) == IF s = << >> THEN 0 ELSE OutputSize(Head(s)) + OutputsSize(Tail(s))

\* C1: the decode of the encoding of a record the builder built succeeds and
\* yields that record: same version, same inputs and outputs field for field
\* and in the same order, same lock_time.
C1_RoundTrip ==
    (IsTx /\ pc = "decoded" /\ shape = "encoded" /\ tail = << >>) =>
        /\ res.kind = "Ok"
        /\ res.val.version = ent.val.version
        /\ res.val.lock_time = ent.val.lock_time
        /\ Len(res.val.inputs) = Len(ent.val.inputs)
        /\ \A k \in 1..Len(ent.val.inputs) :
             /\ res.val.inputs[k].previous_output.txid = ent.val.inputs[k].previous_output.txid
             /\ res.val.inputs[k].previous_output.vout = ent.val.inputs[k].previous_output.vout
             /\ res.val.inputs[k].script_sig = ent.val.inputs[k].script_sig
             /\ res.val.inputs[k].sequence = ent.val.inputs[k].sequence
        /\ Len(res.val.outputs) = Len(ent.val.outputs)
        /\ \A k \in 1..Len(ent.val.outputs) :
             /\ res.val.outputs[k].value = ent.val.outputs[k].value
             /\ res.val.outputs[k].script_pubkey = ent.val.outputs[k].script_pubkey
        /\ res.val = ent.val

C1_Witness ==
    /\ IsTx /\ pc = "decoded" /\ shape = "encoded" /\ tail = << >>
    /\ res.kind = "Ok"
    /\ ent.val.version < 0
    /\ Len(ent.val.inputs) = 1 /\ ent.val.inputs[1].script_sig # << >>
    /\ Len(ent.val.outputs) = 1 /\ ent.val.outputs[1].value[3] # 0

\* C2: the decode of a proper prefix of the encoding of a record fails with
\* InvalidTransaction: no panic, no Ok with a partial record.
C2_Truncation ==
    (IsTx /\ pc = "decoded" /\ shape = "truncated") =>
        /\ res.kind = "Err"
        /\ res.err = "InvalidTransaction"

\* a cut inside the 4 bytes of the sequence field of the only input
C2_Witness ==
    /\ IsTx /\ pc = "decoded" /\ shape = "truncated"
    /\ Len(ent.val.inputs) = 1 /\ ent.val.outputs = << >>
    /\ Len(buf) = Len(encode(ent)) - 2
    /\ res.kind = "Err"

\* C3: no decode of any buffer (OutPoint::parse, TxInput::parse,
\* TxOutput::parse, LegacyTransaction::try_from) reads an index or takes a
\* slice out of the range of the buffer it indexes; a length violation that a
\* decode reports is InvalidTransaction.
C3_BoundsSafety ==
    /\ res.kind # "Panic"
    /\ next.kind # "Panic"
    /\ res.kind = "Err" => res.err = "InvalidTransaction"
    /\ next.kind = "Err" => next.err = "InvalidTransaction"

\* a hostile script length: the buffer passes the coarse length check of
\* TxInput::parse and is rejected by the check of script_end + 4
C3_Witness ==
    /\ ent.type = "TxInput" /\ pc = "decoded" /\ shape = "corrupted"
    /\ Len(buf) >= 36 + 4
    /\ buf[40] = 255
    /\ res.kind = "Err"

\* C4: parse(E.serialize() ++ T) returns E and a consumed count equal to the
\* length of E.serialize() (36 for an OutPoint, 36 + 4 + script + 4 for a
\* TxInput, 12 + script for a TxOutput); two encoded inputs, concatenated and
\* decoded one after the other from offset 0, come back in order.
C4_OffsetConsistency ==
    (~IsTx /\ pc \in {"decoded", "next"} /\ shape = "encoded") =>
        /\ res.kind = "Ok"
        /\ res.val = ent.val
        /\ res.used = Len(encode(ent))
        /\ ent.type = "OutPoint" => res.used = 36
        /\ ent.type = "TxInput" => res.used = 36 + 4 + Len(ent.val.script_sig) + 4
        /\ ent.type = "TxOutput" => res.used = 12 + Len(ent.val.script_pubkey)
        /\ (pc = "next" /\ ent.type = "TxInput") =>
             \A i \in Inputs :
                 tail = TxInput_serialize(i) =>
                     /\ next.kind = "Ok"
                     /\ next.val = i
                     /\ res.used + next.used = Len(buf)

C4_Witness ==
    /\ ent.type = "TxInput" /\ pc = "next" /\ shape = "encoded"
    /\ \E i \in Inputs : tail = TxInput_serialize(i) /\ i # ent.val
    /\ next.kind = "Ok"
    /\ next.val # res.val

\* C5: the encoding of a record is the little-endian version at offset 0,
\* the input count at 4, the output count at 8, lock_time at 12, then each
\* input's encoding in order, then each output's; the counts are the numbers
\* of inputs and outputs present; the length is 16 + the sum of (44 + script)
\* over the inputs + the sum of (12 + script) over the outputs.
C5_Layout ==
    (IsTx /\ pc = "bytes" /\ shape = "encoded" /\ tail = << >>) =>
        LET t == ent.val
            inOff(k) == 16 + InputsSize(SubSeq(t.inputs, 1, k - 1))
            outOff(k) == 16 + InputsSize(t.inputs) + OutputsSize(SubSeq(t.outputs, 1, k - 1))
        IN
        /\ Len(buf) = 16 + InputsSize(t.inputs) + OutputsSize(t.outputs)
        /\ buf[1] = t.version % 256
        /\ i32_from_le_bytes(SubSeq(buf, 1, 4)) = t.version
        /\ u32_from_le_bytes(SubSeq(buf, 5, 8)) = U32Of(Len(t.inputs))
        /\ u32_from_le_bytes(SubSeq(buf, 9, 12)) = U32Of(Len(t.outputs))
        /\ u32_from_le_bytes(SubSeq(buf, 13, 16)) = t.lock_time
        /\ \A k \in 1..Len(t.inputs) :
             LET e == SubSeq(buf, inOff(k) + 1, inOff(k) + InputSize(t.inputs[k]))
                 n == Len(t.inputs[k].script_sig)
             IN
             /\ e = TxInput_serialize(t.inputs[k])
             /\ SubSeq(e, 1, 32) = t.inputs[k].previous_output.txid
             /\ u32_from_le_bytes(SubSeq(e, 33, 36)) = t.inputs[k].previous_output.vout
             /\ u32_from_le_bytes(SubSeq(e, 37, 40)) = U32Of(n)
             /\ SubSeq(e, 41, 40 + n) = t.inputs[k].script_sig
             /\ u32_from_le_bytes(SubSeq(e, 41 + n, 44 + n)) = t.inputs[k].sequence
        /\ \A k \in 1..Len(t.outputs) :
             LET e == SubSeq(buf, outOff(k) + 1, outOff(k) + OutputSize(t.outputs[k]))
                 n == Len(t.outputs[k].script_pubkey)
             IN
             /\ e = TxOutput_serialize(t.outputs[k])
             /\ u64_from_le_bytes(SubSeq(e, 1, 8)) = t.outputs[k].value
             /\ u32_from_le_bytes(SubSeq(e, 9, 12)) = U32Of(n)
             /\ SubSeq(e, 13, 12 + n) = t.outputs[k].script_pubkey
        /\ (t.version = 1 /\ t.inputs = << >> /\ t.outputs = << >> /\ t.lock_time = << 0, 0 >>) =>
             buf = << 1, 0, 0, 0, 0, 0, 0, 0, 0, 0, 0, 0, 0, 0, 0, 0 >>

C5_Witness ==
    /\ IsTx /\ pc = "bytes" /\ shape = "encoded" /\ tail = << >>
    /\ Len(ent.val.inputs) = 1 /\ Len(ent.val.inputs[1].script_sig) = 3
    /\ Len(ent.val.outputs) = 1 /\ Len(ent.val.outputs[1].script_pubkey) = 2
    /\ Len(buf) = 16 + 47 + 14

\* C6: when the decode of a buffer B succeeds with a record, the decode of B
\* followed by any bytes T succeeds with an equal record.
C6_TrailingIgnored ==
    (IsTx /\ pc = "decoded" /\ tail # << >> /\ prev.kind = "Ok") =>
        /\ res.kind = "Ok"
        /\ res.val = prev.val

\* B is not an encoding: it already carried bytes past the consumed offset
C6_Witness ==
    /\ IsTx /\ pc = "decoded" /\ tail # << >> /\ prev.kind = "Ok"
    /\ shape = "corrupted"
    /\ prev.used < Len(buf) - Len(tail)
    /\ res.kind = "Ok"

\* C7: the decode of any buffer returns: Ok with as many inputs and outputs
\* as the counts at header offsets 4 and 8, or Err(InvalidTransaction).
C7_AllOrNothing ==
    (IsTx /\ pc = "decoded") =>
        /\ res.kind \in {"Ok", "Err"}
        /\ res.kind = "Ok" =>
             /\ U32Of(Len(res.val.inputs)) = u32_from_le_bytes(SubSeq(buf, 5, 8))
             /\ U32Of(Len(res.val.outputs)) = u32_from_le_bytes(SubSeq(buf, 9, 12))
        /\ res.kind = "Err" => res.err = "InvalidTransaction"

\* the builder that the calls logged so far must have produced
LastArg(op, dflt) ==
    LET hits == SelectSeq(log, LAMBDA c : c.op = op)
    IN IF hits = << >> THEN dflt ELSE hits[Len(hits)].arg

ArgsOf(op) ==
    LET hits == SelectSeq(log, LAMBDA c : c.op = op)
    IN [k \in 1..Len(hits) |-> hits[k].arg]

\* C8: a new builder has version 1, lock_time 0 and no inputs or outputs;
\* after any sequence of calls its version and lock_time are the last values
\* set (or the defaults) and its inputs and outputs are the items added, in
\* call order, so each call changes its own field only; build() yields a
\* record with those four fields.
C8_Builder ==
    /\ log = << >> => /\ builder.version = 1
                      /\ builder.lock_time = << 0, 0 >>
                      /\ builder.inputs = << >>
                      /\ builder.outputs = << >>
    /\ builder.version = LastArg("version", 1)
    /\ builder.lock_time = LastArg("lock_time", << 0, 0 >>)
    /\ builder.inputs = ArgsOf("add_input")
    /\ builder.outputs = ArgsOf("add_output")
    /\ pc = "built" => /\ ent.val.version = LastArg("version", 1)
                       /\ ent.val.lock_time = LastArg("lock_time", << 0, 0 >>)
                       /\ ent.val.inputs = ArgsOf("add_input")
                       /\ ent.val.outputs = ArgsOf("add_output")

C8_Witness ==
    /\ pc = "built"
    /\ Len(log) = 3
    /\ log[1].op = "version" /\ log[1].arg = 2
    /\ log[2].op = "add_input" /\ log[3].op = "add_input"
    /\ log[2].arg # log[3].arg
    /\ ent.val.version = 2
    /\ ent.val.inputs = << log[2].arg, log[3].arg >>

\* C9: when the decode of a buffer succeeds, the encoding of the record it
\* returns is the prefix of the buffer that ends at the final offset of the
\* decode.
C9_Canonical ==
    (IsTx /\ pc = "reencoded") =>
        /\ res.used <= Len(buf)
        /\ res.used = 16 + InputsSize(res.val.inputs) + OutputsSize(res.val.outputs)
        /\ reenc = SubSeq(buf, 1, res.used)

\* a buffer that is no encoding of the record it came from, with bytes left
\* after the consumed offset
C9_Witness ==
    /\ IsTx /\ pc = "reencoded" /\ shape = "corrupted"
    /\ res.val # ent.val
    /\ res.used < Len(buf)
    /\ Len(res.val.inputs) >= 1

====
